---- MODULE Spec2Model ----
(***************************************************************************)
(* A model of the BEACN Link native addon: the device enumerator and the  *)
(* virtual device manager of src/src/beacn_audio.rs, and the cleanup      *)
(* entry point of src/beacn-build/beacn-native/src/cleanup.rs.            *)
(*                                                                         *)
(* Text is a sequence of one-character strings, so that the splitting,    *)
(* searching and formatting the program does are computed, not assumed.   *)
(* An element BAD of a command's stdout is a byte that is not valid        *)
(* UTF-8.                                                                  *)
(***************************************************************************)
EXTENDS Integers, Sequences, FiniteSets, TLC

VARIABLES
    pulse_context,   \* BeacnLink.pulse_context: "None" or "Some"
    ever_initialized,\* history: some initialize call returned true
    modules,         \* the audio server's module table, in load order
    next_index,      \* the index the server gives the next module
    link_modules,    \* history: indexes loaded by the last create_link_outputs
    call,            \* the last completed call: operation, commands run, result
    fixture,         \* what the external listing commands answer (fixture specs)
    pc,              \* per caller: position inside create_virtual_output / route_audio
    mutex,           \* holder of the pulse_context mutex, 0 when free
    in_flight        \* per caller: the external command being waited for

vars == <<pulse_context, ever_initialized, modules, next_index, link_modules,
          call, fixture, pc, mutex, in_flight>>

---------------------------------------------------------------------------
(* Bounds *)

MaxSinkLen == 4
MaxSourceLen == 2

---------------------------------------------------------------------------
(* Characters and text *)

TAB == "\t"
NL == "\n"
CR == "\r"
BAD == "BAD"
REPLACEMENT == "U+FFFD"

\* Every text of at most n characters over alphabet A.
RECURSIVE TextsUpTo(_, _)
TextsUpTo(A, n) ==
    IF n = 0 THEN {<<>>}
    ELSE LET shorter == TextsUpTo(A, n - 1)
         IN  shorter \cup {Append(s, c) : s \in shorter, c \in A}

\* str::split(delim): the pieces between delimiters; always at least one
\* piece, and an empty piece after a trailing delimiter.
RECURSIVE Split(_, _)
Split(s, delim) ==
    IF \A i \in 1..Len(s) : s[i] # delim THEN <<s>>
    ELSE LET i == CHOOSE k \in 1..Len(s) :
                      s[k] = delim /\ \A j \in 1..(k - 1) : s[j] # delim
         IN  <<SubSeq(s, 1, i - 1)>> \o Split(SubSeq(s, i + 1, Len(s)), delim)

\* str::lines(): split at "\n", no final empty line after a trailing "\n",
\* and a "\r" before the "\n" is not part of the line.
StripCR(line) ==
    IF Len(line) > 0 /\ line[Len(line)] = CR
    THEN SubSeq(line, 1, Len(line) - 1)
    ELSE line

Lines(s) ==
    LET pieces == Split(s, NL)
        kept == IF pieces[Len(pieces)] = <<>>
                THEN SubSeq(pieces, 1, Len(pieces) - 1)
                ELSE pieces
    IN  SubSeq([i \in 1..Len(kept) |-> StripCR(kept[i])], 1, Len(kept))

\* str::contains(pat)
Contains(s, pat) ==
    \E i \in 0..(Len(s) - Len(pat)) :
        \A j \in 1..Len(pat) : s[i + j] = pat[j]

\* String::from_utf8_lossy: invalid bytes become U+FFFD.
FromUtf8Lossy(stdout) ==
    SubSeq([i \in 1..Len(stdout) |-> IF stdout[i] = BAD THEN REPLACEMENT ELSE stdout[i]],
           1, Len(stdout))

FromUtf8Replacing(stdout) == [ok |-> TRUE, text |-> FromUtf8Lossy(stdout)]

\* String::from_utf8: Err when some byte is invalid.
FromUtf8(stdout) ==
    IF \E i \in 1..Len(stdout) : stdout[i] = BAD
    THEN [ok |-> FALSE, text |-> <<>>]
    ELSE [ok |-> TRUE, text |-> stdout]

---------------------------------------------------------------------------
(* External commands: std::process::Command ... .output() / .status() *)

\* Err(_): the process could not be spawned.
SpawnErr == [kind |-> "err", status |-> 0, stdout |-> <<>>]
\* Ok(Output { status, stdout, .. })
Exited(status, stdout) == [kind |-> "ok", status |-> status, stdout |-> stdout]

Ran(argv, result) == [argv |-> argv, result |-> result]

pactl == <<"p","a","c","t","l">>
list == <<"l","i","s","t">>
short == <<"s","h","o","r","t">>
sinks == <<"s","i","n","k","s">>
sources == <<"s","o","u","r","c","e","s">>

ListSinksCmd == <<pactl, list, short, sinks>>
ListSourcesCmd == <<pactl, list, short, sources>>

NoCall == [op |-> "none", args |-> <<>>, cmds |-> <<>>, ret |-> FALSE,
           devices |-> <<>>, panicked |-> FALSE]

---------------------------------------------------------------------------
(* The device enumerator: BeacnLink::get_audio_devices *)

AudioDeviceSwapped(parts, is_output) ==
    [name |-> parts[1],
     id |-> parts[2],
     description |-> IF Len(parts) >= 3 THEN parts[3] ELSE <<>>,
     is_output |-> is_output]

\* AudioDevice { name: parts[1], id: parts[0], description: parts.get(2)... }
\* (the source's indexes are zero-based)
AudioDevice(parts, is_output) ==
    [name |-> parts[2],
     id |-> parts[1],
     description |-> IF Len(parts) >= 3 THEN parts[3] ELSE <<>>,
     is_output |-> is_output]

PushLineAlways(devices, line, is_output) ==
    LET parts == Split(line, TAB)
    IN  Append(devices, AudioDevice(parts \o <<<<>>>>, is_output))

\* the body of `for line in output_str.lines()`
PushLine(devices, line, is_output) ==
    LET parts == Split(line, TAB)
    IN  IF Len(parts) >= 2
        THEN Append(devices, AudioDevice(parts, is_output))
        ELSE devices

RECURSIVE PushLines(_, _, _, _)
PushLines(devices, lines, i, is_output) ==
    IF i > Len(lines) THEN devices
    ELSE PushLines(PushLine(devices, lines[i], is_output), lines, i + 1, is_output)

\* one `if let Ok(output) = ... { if let Ok(output_str) = ... { for ... } }`
PushListing(devices, result, is_output) ==
    IF result.kind = "ok" /\ FromUtf8(result.stdout).ok
    THEN PushLines(devices, Lines(FromUtf8(result.stdout).text), 1, is_output)
    ELSE devices

Devices(sinks_result, sources_result) ==
    PushListing(PushListing(<<>>, sinks_result, TRUE), sources_result, FALSE)

GetAudioDevices(sinks_result, sources_result) ==
    /\ call' = [NoCall EXCEPT
                  !.op = "get_audio_devices",
                  !.cmds = <<Ran(ListSinksCmd, sinks_result),
                             Ran(ListSourcesCmd, sources_result)>>,
                  !.devices = Devices(sinks_result, sources_result)]
    /\ UNCHANGED <<pulse_context, ever_initialized, modules, next_index,
                   link_modules, fixture, pc, mutex, in_flight>>

---------------------------------------------------------------------------
(* Enumeration against fixtures: the two listing commands answer what the  *)
(* fixture says.                                                           *)

ListingAlphabet == {"a", TAB, NL, BAD}

ListingResults(n) ==
    {SpawnErr} \cup {Exited(0, s) : s \in TextsUpTo(ListingAlphabet, n)}

InitEnum ==
    /\ pulse_context = "None"
    /\ ever_initialized = FALSE
    /\ modules = <<>>
    /\ next_index = 0
    /\ link_modules = {}
    /\ call = NoCall
    /\ fixture \in [sinks : ListingResults(MaxSinkLen),
                    sources : ListingResults(MaxSourceLen)]
    /\ pc = <<>>
    /\ mutex = 0
    /\ in_flight = <<>>

EnumerateFixture ==
    /\ call.op = "none"
    /\ GetAudioDevices(fixture.sinks, fixture.sources)

NextEnum == EnumerateFixture

SpecEnum == InitEnum /\ [][NextEnum]_vars

---------------------------------------------------------------------------
(* The audio server behind pactl: its module table.  A module is           *)
(* [index, name, argument]; `pactl list short modules` prints one line per *)
(* module, index TAB name TAB argument TAB.                                *)

load_module == <<"l","o","a","d","-","m","o","d","u","l","e">>
unload_module == <<"u","n","l","o","a","d","-","m","o","d","u","l","e">>
module_null_sink == <<"m","o","d","u","l","e","-","n","u","l","l","-","s","i","n","k">>
module_loopback == <<"m","o","d","u","l","e","-","l","o","o","p","b","a","c","k">>
module_alsa_card == <<"m","o","d","u","l","e","-","a","l","s","a","-","c","a","r","d">>
modules_word == <<"m","o","d","u","l","e","s">>

ListModulesCmd == <<pactl, list, short, modules_word>>

Digits == <<"0","1","2","3","4","5","6","7","8","9">>

RECURSIVE Decimal(_)
Decimal(n) ==
    IF n < 10 THEN <<Digits[n + 1]>>
    ELSE Decimal(n \div 10) \o <<Digits[(n % 10) + 1]>>

RECURSIVE JoinSpace(_)
JoinSpace(words) ==
    IF words = <<>> THEN <<>>
    ELSE IF Len(words) = 1 THEN words[1]
    ELSE words[1] \o <<" ">> \o JoinSpace(Tail(words))

Server == [modules |-> modules, next_index |-> next_index]

\* How the environment lets one external command end: "err" the process is
\* not spawned, "fail" it exits non-zero having done nothing, "ok" it
\* reaches the server.
Outcomes == {"err", "fail", "ok"}

\* pactl load-module NAME ARGUMENTS...
ServerLoad(srv, argv, how) ==
    IF how = "ok"
    THEN [srv |-> [modules |-> Append(srv.modules,
                                 [index |-> srv.next_index,
                                  name |-> argv[3],
                                  argument |-> JoinSpace(SubSeq(argv, 4, Len(argv)))]),
                   next_index |-> srv.next_index + 1],
          result |-> Exited(0, Decimal(srv.next_index) \o <<NL>>)]
    ELSE IF how = "fail"
    THEN [srv |-> srv, result |-> Exited(1, <<>>)]
    ELSE [srv |-> srv, result |-> SpawnErr]

\* pactl unload-module ID: the module with that index leaves the table.
ServerUnload(srv, argv, how) ==
    LET loaded == \E i \in 1..Len(srv.modules) : Decimal(srv.modules[i].index) = argv[3]
        IsOther(m) == Decimal(m.index) # argv[3]
    IN  IF how = "ok"
        THEN [srv |-> [srv EXCEPT !.modules = SelectSeq(srv.modules, IsOther)],
              result |-> Exited(IF loaded THEN 0 ELSE 1, <<>>)]
        ELSE IF how = "fail"
        THEN [srv |-> srv, result |-> Exited(1, <<>>)]
        ELSE [srv |-> srv, result |-> SpawnErr]

ModuleLine(m) == Decimal(m.index) \o <<TAB>> \o m.name \o <<TAB>> \o m.argument \o <<TAB>>

RECURSIVE ModuleListing(_)
ModuleListing(mods) ==
    IF mods = <<>> THEN <<>>
    ELSE ModuleLine(Head(mods)) \o <<NL>> \o ModuleListing(Tail(mods))

\* pactl list short modules
ServerList(srv, how) ==
    IF how = "ok" THEN Exited(0, ModuleListing(srv.modules))
    ELSE IF how = "fail" THEN Exited(1, <<>>)
    ELSE SpawnErr

Succeeded(result) == result.kind = "ok" /\ result.status = 0

---------------------------------------------------------------------------
(* The virtual device manager: BeacnLink *)

Returned(op, args, r) ==
    [NoCall EXCEPT !.op = op, !.args = args, !.cmds = r.cmds, !.ret = r.ret]

\* pulseaudio --check succeeded, Mainloop::new() and Context::new() gave Some
InitializeSucceeds(check, mainloop, context) ==
    Succeeded(check) /\ mainloop = "Some" /\ context = "Some"

ContextAfterFailedInitializeCleared(ctx) == "None"

\* every `return false` of initialize leaves self.pulse_context as it was
ContextAfterFailedInitialize(ctx) == ctx

pulseaudio == <<"p","u","l","s","e","a","u","d","i","o">>
check_flag == <<"-","-","c","h","e","c","k">>

Initialize(check, mainloop, context) ==
    LET ok == InitializeSucceeds(check, mainloop, context)
    IN  /\ pulse_context' = IF ok THEN "Some"
                            ELSE ContextAfterFailedInitialize(pulse_context)
        /\ ever_initialized' = (ever_initialized \/ ok)
        /\ call' = [NoCall EXCEPT !.op = "initialize",
                                   !.cmds = <<Ran(<<pulseaudio, check_flag>>, check)>>,
                                   !.ret = ok]
        /\ UNCHANGED <<modules, next_index, link_modules, fixture, pc, mutex, in_flight>>

sink_name_eq == <<"s","i","n","k","_","n","a","m","e","=">>
sink_properties_eq == <<"s","i","n","k","_","p","r","o","p","e","r","t","i","e","s","=","d","e","v","i","c","e",".","d","e","s","c","r","i","p","t","i","o","n","=","\"">>
source_eq == <<"s","o","u","r","c","e","=">>
sink_eq == <<"s","i","n","k","=">>

LoadNullSinkCmd(name) ==
    <<pactl, load_module, module_null_sink,
      sink_name_eq \o name,
      sink_properties_eq \o name \o <<"\"">> >>

LoadLoopbackCmd(source, destination) ==
    <<pactl, load_module, module_loopback,
      source_eq \o source,
      sink_eq \o destination>>

StatusSuccessIfSpawned(result) == result.kind = "ok"

\* `match output { Ok(out) => out.status.success(), Err(_) => false }`
StatusSuccess(result) == result.kind = "ok" /\ result.status = 0

\* The body shared by create_virtual_output and route_audio: with a stored
\* handle run the command, without one return false.
LoadIfInitialized(ctx, srv, argv, how) ==
    IF ctx = "Some"
    THEN LET r == ServerLoad(srv, argv, how)
         IN  [ret |-> StatusSuccess(r.result),
              cmds |-> <<Ran(argv, r.result)>>,
              srv |-> r.srv]
    ELSE [ret |-> FALSE, cmds |-> <<>>, srv |-> srv]

CreateVirtualOutputOn(ctx, srv, name, how) ==
    LoadIfInitialized(ctx, srv, LoadNullSinkCmd(name), how)

RouteAudioOn(ctx, srv, source, destination, how) ==
    LoadIfInitialized(ctx, srv, LoadLoopbackCmd(source, destination), how)

output_names ==
    << <<"B","E","A","C","N","_","L","i","n","k","_","O","u","t">>,
       <<"B","E","A","C","N","_","L","i","n","k","_","2","_","O","u","t">>,
       <<"B","E","A","C","N","_","L","i","n","k","_","3","_","O","u","t">>,
       <<"B","E","A","C","N","_","L","i","n","k","_","4","_","O","u","t">> >>

RECURSIVE LinkLoopKeepGoing(_, _, _, _, _)
LinkLoopKeepGoing(ctx, srv, hows, i, done) ==
    IF i > Len(output_names)
    THEN [ret |-> done.ret, cmds |-> done.cmds, attempts |-> done.attempts, srv |-> srv]
    ELSE LET r == CreateVirtualOutputOn(ctx, srv, output_names[i], hows[i])
         IN  LinkLoopKeepGoing(ctx, r.srv, hows, i + 1,
                               [ret |-> done.ret /\ r.ret,
                                cmds |-> done.cmds \o r.cmds,
                                attempts |-> Append(done.attempts, output_names[i])])

CreateLinkOutputsOnKeepGoing(ctx, srv, hows) ==
    LinkLoopKeepGoing(ctx, srv, hows, 1, [ret |-> TRUE, cmds |-> <<>>, attempts |-> <<>>])

\* `for name in output_names.iter() { if !create_virtual_output(name) { return false; } } true`
RECURSIVE LinkLoop(_, _, _, _, _)
LinkLoop(ctx, srv, hows, i, done) ==
    IF i > Len(output_names)
    THEN [ret |-> TRUE, cmds |-> done.cmds, attempts |-> done.attempts, srv |-> srv]
    ELSE LET r == CreateVirtualOutputOn(ctx, srv, output_names[i], hows[i])
             now == [cmds |-> done.cmds \o r.cmds,
                     attempts |-> Append(done.attempts, output_names[i])]
         IN  IF ~r.ret
             THEN [ret |-> FALSE, cmds |-> now.cmds, attempts |-> now.attempts,
                   srv |-> r.srv]
             ELSE LinkLoop(ctx, r.srv, hows, i + 1, now)

CreateLinkOutputsOn(ctx, srv, hows) ==
    LinkLoop(ctx, srv, hows, 1, [cmds |-> <<>>, attempts |-> <<>>])

CreateVirtualOutput(name, how) ==
    \E r \in {CreateVirtualOutputOn(pulse_context, Server, name, how)} :
        /\ call' = Returned("create_virtual_output", <<name>>, r)
        /\ modules' = r.srv.modules
        /\ next_index' = r.srv.next_index
        /\ UNCHANGED <<pulse_context, ever_initialized, link_modules, fixture,
                       pc, mutex, in_flight>>

RouteAudio(source, destination, how) ==
    \E r \in {RouteAudioOn(pulse_context, Server, source, destination, how)} :
        /\ call' = Returned("route_audio", <<source, destination>>, r)
        /\ modules' = r.srv.modules
        /\ next_index' = r.srv.next_index
        /\ UNCHANGED <<pulse_context, ever_initialized, link_modules, fixture,
                       pc, mutex, in_flight>>

CreateLinkOutputs(hows) ==
    \E r \in {CreateLinkOutputsOn(pulse_context, Server, hows)} :
        /\ call' = Returned("create_link_outputs", r.attempts, r)
        /\ modules' = r.srv.modules
        /\ next_index' = r.srv.next_index
        /\ link_modules' = IF r.ret THEN next_index..(r.srv.next_index - 1)
                           ELSE link_modules
        /\ UNCHANGED <<pulse_context, ever_initialized, fixture, pc, mutex, in_flight>>

---------------------------------------------------------------------------
(* The cleanup entry point: cleanup_virtual_devices *)

beacn_link_ == <<"b","e","a","c","n","_","l","i","n","k","_">>

IsBeacnLinkLinePrefixOnly(line) ==
    Len(line) >= Len(beacn_link_) /\ SubSeq(line, 1, Len(beacn_link_)) = beacn_link_

\* `if line.contains("beacn_link_")`
IsBeacnLinkLine(line) == Contains(line, beacn_link_)

\* `line.split('\t').next()`: the first field, which split always yields
ModuleId(line) == Split(line, TAB)[1]

UnloadCmd(module_id) == <<pactl, unload_module, module_id>>

CleanupReturnIfAllUnloaded(cmds) ==
    \A i \in 1..Len(cmds) : Succeeded(cmds[i].result)

\* the final `true`, whatever the commands did
CleanupReturn(cmds) == TRUE

\* The body of `for line in modules.lines()`: st is the loop's state so
\* far, the commands run and the server; hows[k] is how the k-th unload ends.
UnloadStep(st, line, hows) ==
    IF IsBeacnLinkLine(line)
    THEN LET argv == UnloadCmd(ModuleId(line))
             r == ServerUnload(st.srv, argv, hows[Len(st.cmds) + 1])
         IN  [cmds |-> Append(st.cmds, Ran(argv, r.result)), srv |-> r.srv]
    ELSE st

\* `for line in modules.lines() { ... }` (the one-element set makes TLC
\* compute each iteration's state once)
RECURSIVE UnloadLoop(_, _, _, _)
UnloadLoop(st, lines, i, hows) ==
    IF i > Len(lines) THEN st
    ELSE CHOOSE end \in {UnloadLoop(next, lines, i + 1, hows) :
                           next \in {UnloadStep(st, lines[i], hows)}} : TRUE

\* The number of unload commands a listing leads to.
UnloadCount(list_result) ==
    IF list_result.kind = "err" THEN 0
    ELSE LET lines == Lines(FromUtf8Lossy(list_result.stdout))
         IN  Cardinality({i \in 1..Len(lines) : IsBeacnLinkLine(lines[i])})

CleanupOn(srv, list_result, hows) ==
    LET listed == <<Ran(ListModulesCmd, list_result)>>
    IN  IF list_result.kind = "err"
        THEN \* .expect("Failed to execute pactl") panics
             [panicked |-> TRUE, ret |-> FALSE, cmds |-> listed, srv |-> srv]
        ELSE LET lines == Lines(FromUtf8Lossy(list_result.stdout))
                 r == UnloadLoop([cmds |-> <<>>, srv |-> srv], lines, 1, hows)
             IN  [panicked |-> FALSE, ret |-> CleanupReturn(r.cmds),
                  cmds |-> listed \o r.cmds, srv |-> r.srv]

CleanupVirtualDevices(list_result, hows) ==
    \E r \in {CleanupOn(Server, list_result, hows)} :
        /\ call' = [NoCall EXCEPT !.op = "cleanup_virtual_devices",
                                   !.cmds = r.cmds, !.ret = r.ret,
                                   !.panicked = r.panicked]
        /\ modules' = r.srv.modules
        /\ next_index' = r.srv.next_index
        /\ UNCHANGED <<pulse_context, ever_initialized, link_modules, fixture,
                       pc, mutex, in_flight>>

---------------------------------------------------------------------------
(* The addon in use: one caller at a time (the host calls synchronously),  *)
(* against the audio server.                                               *)

MaxModules == 4

beacn_link_a == <<"b","e","a","c","n","_","l","i","n","k","_","a">>
mic == <<"m","i","c">>

\* Sink names a caller passes to create_virtual_output.
SinkNames == {output_names[1], beacn_link_a}

\* The server can still load k modules within the bound.
RoomFor(k) == next_index + k - 1 <= MaxModules

Init ==
    /\ pulse_context = "None"
    /\ ever_initialized = FALSE
    /\ modules = <<[index |-> 0, name |-> module_alsa_card, argument |-> <<>>]>>
    /\ next_index = 1
    /\ link_modules = {}
    /\ call = NoCall
    /\ fixture = <<>>
    /\ pc = <<>>
    /\ mutex = 0
    /\ in_flight = <<>>

CallInitialize ==
    \E how \in Outcomes, mainloop, context \in {"None", "Some"} :
        Initialize(IF how = "ok" THEN Exited(0, <<>>)
                   ELSE IF how = "fail" THEN Exited(1, <<>>)
                   ELSE SpawnErr,
                   mainloop, context)

CallCreateVirtualOutput ==
    /\ RoomFor(1)
    /\ \E name \in SinkNames, how \in Outcomes : CreateVirtualOutput(name, how)

CallRouteAudio ==
    /\ RoomFor(1)
    /\ \E how \in Outcomes : RouteAudio(mic, beacn_link_a, how)

CallCreateLinkOutputs ==
    /\ RoomFor(Len(output_names))
    /\ \E hows \in [1..Len(output_names) -> Outcomes] : CreateLinkOutputs(hows)

CallCleanup ==
    \E how \in Outcomes :
        LET listed == ServerList(Server, how)
        IN  \E hows \in [1..UnloadCount(listed) -> Outcomes] :
                CleanupVirtualDevices(listed, hows)

Next ==
    \/ CallInitialize
    \/ CallCreateVirtualOutput
    \/ CallRouteAudio
    \/ CallCreateLinkOutputs
    \/ CallCleanup

Spec == Init /\ [][Next]_vars

---------------------------------------------------------------------------
(* The BeacnLink instance alone: initialize and the three manager calls.   *)

NextManager ==
    \/ CallInitialize
    \/ CallCreateVirtualOutput
    \/ CallRouteAudio
    \/ CallCreateLinkOutputs

SpecManager == Init /\ [][NextManager]_vars

---------------------------------------------------------------------------
(* Cleanup against fixtures: the listing command answers what the fixture  *)
(* says, whatever the server holds.                                        *)

MaxListingLines == 3

LoadedBeacnLinkA ==
    [index |-> 1, name |-> module_null_sink,
     argument |-> JoinSpace(SubSeq(LoadNullSinkCmd(beacn_link_a), 4, 5))]

FixtureModules ==
    <<[index |-> 0, name |-> module_alsa_card, argument |-> <<>>], LoadedBeacnLinkA>>

\* Lines a module listing may hold: the two loaded modules' own lines, a
\* null sink named in upper case, the bare prefix with no tab, an empty
\* line, a name one character short of the prefix, and a line ending in an
\* invalid byte.
ListingLinePool ==
    { ModuleLine(FixtureModules[1]),
      ModuleLine(FixtureModules[2]),
      <<"7", TAB>> \o module_null_sink \o <<TAB>> \o sink_name_eq \o output_names[1] \o <<TAB>>,
      beacn_link_,
      <<>>,
      <<"8", TAB>> \o SubSeq(beacn_link_, 1, Len(beacn_link_) - 1),
      <<"9", TAB>> \o beacn_link_ \o <<BAD>> }

RECURSIVE LineSeqsUpTo(_)
LineSeqsUpTo(n) ==
    IF n = 0 THEN {<<>>}
    ELSE LET shorter == LineSeqsUpTo(n - 1)
         IN  shorter \cup {Append(ls, l) : ls \in shorter, l \in ListingLinePool}

RECURSIVE JoinNL(_)
JoinNL(lines) ==
    IF lines = <<>> THEN <<>>
    ELSE Head(lines) \o <<NL>> \o JoinNL(Tail(lines))

\* Each listing with and without its final newline.
ModuleListingTexts ==
    LET whole == {JoinNL(ls) : ls \in LineSeqsUpTo(MaxListingLines)}
    IN  whole \cup {SubSeq(t, 1, Len(t) - 1) : t \in whole \ {<<>>}}

ModuleListingResults ==
    {SpawnErr} \cup {Exited(st, t) : st \in {0, 1}, t \in ModuleListingTexts}

InitCleanup ==
    /\ pulse_context = "None"
    /\ ever_initialized = FALSE
    /\ modules = FixtureModules
    /\ next_index = 2
    /\ link_modules = {}
    /\ call = NoCall
    /\ fixture \in [modules : ModuleListingResults]
    /\ pc = <<>>
    /\ mutex = 0
    /\ in_flight = <<>>

CleanupFixture ==
    /\ call.op = "none"
    /\ \E hows \in [1..UnloadCount(fixture.modules) -> Outcomes] :
          CleanupVirtualDevices(fixture.modules, hows)

NextCleanup == CleanupFixture

SpecCleanup == InitCleanup /\ [][NextCleanup]_vars

---------------------------------------------------------------------------
(* Concurrent callers of create_virtual_output and route_audio on one      *)
(* instance.  A caller is idle, or at "lock" (about to take the mutex), at *)
(* "check" (holding the guard, about to look at the handle), at "wait"     *)
(* (its external command is running), or at "drop" (the `if let` ends).    *)

NumCallers == 2
MaxConcLoads == 2

Callers == 1..NumCallers

Idle == [at |-> "idle", op |-> "none", args |-> <<>>, argv |-> <<>>,
         how |-> "none", cmds |-> <<>>, ret |-> FALSE]

MutexAfterCheckReleased(t) == 0

\* The MutexGuard is a temporary of the `if let` scrutinee: it lives to the
\* end of the `if let`, so the caller still holds the mutex in the body.
MutexAfterCheck(t) == t

InitConc ==
    /\ pulse_context = "None"
    /\ ever_initialized = FALSE
    /\ modules = <<[index |-> 0, name |-> module_alsa_card, argument |-> <<>>]>>
    /\ next_index = 1
    /\ link_modules = {}
    /\ call = NoCall
    /\ fixture = <<>>
    /\ pc = [t \in Callers |-> Idle]
    /\ mutex = 0
    /\ in_flight = [t \in Callers |-> <<>>]

\* initialize takes &mut self: no other call on the instance is running.
ConcInitialize ==
    /\ \A t \in Callers : pc[t].at = "idle"
    /\ mutex = 0
    /\ CallInitialize

Enter(t, op, args, argv) ==
    /\ pc[t].at = "idle"
    /\ next_index + Cardinality({u \in Callers : pc[u].at # "idle"}) <= MaxConcLoads
    /\ pc' = [pc EXCEPT ![t] = [Idle EXCEPT !.at = "lock", !.op = op,
                                             !.args = args, !.argv = argv]]
    /\ UNCHANGED <<pulse_context, ever_initialized, modules, next_index,
                   link_modules, call, fixture, mutex, in_flight>>

EnterCreateVirtualOutput(t) ==
    \E name \in SinkNames :
        Enter(t, "create_virtual_output", <<name>>, LoadNullSinkCmd(name))

EnterRouteAudio(t) ==
    Enter(t, "route_audio", <<mic, beacn_link_a>>, LoadLoopbackCmd(mic, beacn_link_a))

\* self.pulse_context.lock().unwrap(): blocks while another holds the mutex
Lock(t) ==
    /\ pc[t].at = "lock"
    /\ mutex = 0
    /\ mutex' = t
    /\ pc' = [pc EXCEPT ![t].at = "check"]
    /\ UNCHANGED <<pulse_context, ever_initialized, modules, next_index,
                   link_modules, call, fixture, in_flight>>

\* `if let Some(_ctx) = ... .as_ref()`, then Command::new("pactl")...output()
\* starts the process, or fails to
Check(t, how) ==
    /\ pc[t].at = "check"
    /\ mutex' = MutexAfterCheck(t)
    /\ IF pulse_context = "Some" /\ how # "err"
       THEN /\ pc' = [pc EXCEPT ![t].at = "wait", ![t].how = how]
            /\ in_flight' = [in_flight EXCEPT ![t] = pc[t].argv]
       ELSE /\ pc' = [pc EXCEPT ![t].at = "drop", ![t].ret = FALSE,
                                ![t].cmds = IF pulse_context = "Some"
                                            THEN <<Ran(pc[t].argv, SpawnErr)>>
                                            ELSE <<>>]
            /\ in_flight' = in_flight
    /\ UNCHANGED <<pulse_context, ever_initialized, modules, next_index,
                   link_modules, call, fixture>>

\* the external command ends: `match output { Ok(out) => out.status.success(), .. }`
Finish(t) ==
    /\ pc[t].at = "wait"
    /\ \E r \in {ServerLoad(Server, pc[t].argv, pc[t].how)} :
          /\ modules' = r.srv.modules
          /\ next_index' = r.srv.next_index
          /\ pc' = [pc EXCEPT ![t].at = "drop", ![t].ret = StatusSuccess(r.result),
                              ![t].cmds = <<Ran(pc[t].argv, r.result)>>]
    /\ in_flight' = [in_flight EXCEPT ![t] = <<>>]
    /\ UNCHANGED <<pulse_context, ever_initialized, link_modules, call, fixture, mutex>>

\* the `if let` ends: the guard is dropped and the call returns
Drop(t) ==
    /\ pc[t].at = "drop"
    /\ mutex' = IF mutex = t THEN 0 ELSE mutex
    /\ call' = Returned(pc[t].op, pc[t].args, pc[t])
    /\ pc' = [pc EXCEPT ![t] = Idle]
    /\ UNCHANGED <<pulse_context, ever_initialized, modules, next_index,
                   link_modules, fixture, in_flight>>

NextConc ==
    \/ ConcInitialize
    \/ \E t \in Callers : EnterCreateVirtualOutput(t)
    \/ \E t \in Callers : EnterRouteAudio(t)
    \/ \E t \in Callers : Lock(t)
    \/ \E t \in Callers, how \in Outcomes : Check(t, how)
    \/ \E t \in Callers : Finish(t)
    \/ \E t \in Callers : Drop(t)

SpecConc == InitConc /\ [][NextConc]_vars

---------------------------------------------------------------------------
(* Claims about the device enumerator *)

EnumDone == call.op = "get_audio_devices"
SinksResult == call.cmds[1].result
SourcesResult == call.cmds[2].result

\* A listing command failed: not spawned, or its output is not valid UTF-8.
ListingFailed(result) ==
    \/ result.kind = "err"
    \/ \E i \in 1..Len(result.stdout) : result.stdout[i] = BAD

\* A well-formed line has at least two tab-separated fields: it holds a tab.
HasTab(line) == \E i \in 1..Len(line) : line[i] = TAB

TabFree(text) == \A i \in 1..Len(text) : text[i] # TAB

\* text begins with pre
Begins(text, pre) == Len(text) >= Len(pre) /\ SubSeq(text, 1, Len(pre)) = pre

After(text, pre) == SubSeq(text, Len(pre) + 1, Len(text))

\* d is the record of a well-formed line: the line reads id TAB name, then
\* nothing (the description is empty), or TAB description and then nothing
\* or a further TAB; none of the three holds a tab.
IsRecordOf(d, line, is_output) ==
    /\ d.is_output = is_output
    /\ TabFree(d.id) /\ TabFree(d.name) /\ TabFree(d.description)
    /\ Begins(line, d.id \o <<TAB>> \o d.name)
    /\ LET rest == After(line, d.id \o <<TAB>> \o d.name)
       IN  \/ rest = <<>> /\ d.description = <<>>
           \/ /\ Begins(rest, <<TAB>> \o d.description)
              /\ LET tail == After(rest, <<TAB>> \o d.description)
                 IN  tail = <<>> \/ tail[1] = TAB

WellFormedLines(result) == SelectSeq(Lines(result.stdout), HasTab)

\* C1: when both listings are delivered, with N well-formed sink lines and M
\* well-formed source lines, the result is exactly the N sink records in
\* listing order marked as outputs, then the M source records in listing
\* order marked as inputs, each with id, name, description = fields 0, 1, 2.
C1_SinksThenSources ==
    (EnumDone /\ ~ListingFailed(SinksResult) /\ ~ListingFailed(SourcesResult)) =>
        LET S == WellFormedLines(SinksResult)
            R == WellFormedLines(SourcesResult)
        IN  /\ Len(call.devices) = Len(S) + Len(R)
            /\ \A k \in 1..Len(S) : IsRecordOf(call.devices[k], S[k], TRUE)
            /\ \A k \in 1..Len(R) : IsRecordOf(call.devices[Len(S) + k], R[k], FALSE)

C1_Witness ==
    /\ EnumDone /\ ~ListingFailed(SinksResult) /\ ~ListingFailed(SourcesResult)
    /\ Len(WellFormedLines(SinksResult)) = 2
    /\ WellFormedLines(SinksResult)[1] # WellFormedLines(SinksResult)[2]
    /\ Len(WellFormedLines(SourcesResult)) = 1
    /\ Len(call.devices) = 3

\* C5 as stated: when either listing command fails the result is empty.
C5_EmptyOnAnyFailure ==
    (EnumDone /\ (ListingFailed(SinksResult) \/ ListingFailed(SourcesResult))) =>
        call.devices = <<>>

\* C5 amended: a listing command that fails contributes no records and the
\* other listing's records are still returned; the result is empty when both
\* fail.
C5_FailedListingContributesNothing ==
    EnumDone =>
        /\ ListingFailed(SinksResult) =>
              \A k \in 1..Len(call.devices) : ~call.devices[k].is_output
        /\ ListingFailed(SourcesResult) =>
              \A k \in 1..Len(call.devices) : call.devices[k].is_output
        /\ (ListingFailed(SinksResult) /\ ~ListingFailed(SourcesResult)) =>
              /\ Len(call.devices) = Len(WellFormedLines(SourcesResult))
              /\ \A k \in 1..Len(call.devices) :
                    IsRecordOf(call.devices[k], WellFormedLines(SourcesResult)[k], FALSE)
        /\ (ListingFailed(SourcesResult) /\ ~ListingFailed(SinksResult)) =>
              /\ Len(call.devices) = Len(WellFormedLines(SinksResult))
              /\ \A k \in 1..Len(call.devices) :
                    IsRecordOf(call.devices[k], WellFormedLines(SinksResult)[k], TRUE)
        /\ (ListingFailed(SinksResult) /\ ListingFailed(SourcesResult)) =>
              call.devices = <<>>

C5_Witness ==
    /\ EnumDone
    /\ ListingFailed(SinksResult)
    /\ ~ListingFailed(SourcesResult)
    /\ Len(call.devices) >= 1

\* The listing with its lines of fewer than two fields taken out.
WithoutShortLines(result) ==
    IF ListingFailed(result) THEN result
    ELSE Exited(result.status, JoinNL(WellFormedLines(result)))

HasShortLine(result) ==
    /\ ~ListingFailed(result)
    /\ \E i \in 1..Len(Lines(result.stdout)) : ~HasTab(Lines(result.stdout)[i])

\* C8: a line with fewer than two tab-separated fields (an empty line
\* included) yields no record and no error, and the records of the other
\* lines of both listings are what they are without it.
C8_ShortLinesSkipped ==
    EnumDone =>
        /\ ~call.panicked
        /\ call.devices =
              Devices(WithoutShortLines(SinksResult), WithoutShortLines(SourcesResult))
        /\ (~ListingFailed(SinksResult) /\ ~ListingFailed(SourcesResult)) =>
              Len(call.devices) =
                  Len(WellFormedLines(SinksResult)) + Len(WellFormedLines(SourcesResult))

C8_Witness ==
    /\ EnumDone
    /\ ~ListingFailed(SinksResult)
    /\ \E i, j \in 1..Len(Lines(SinksResult.stdout)) :
          /\ Lines(SinksResult.stdout)[i] = <<>>
          /\ Lines(SinksResult.stdout)[j] = <<"a">>
    /\ HasShortLine(SourcesResult)
    /\ Len(call.devices) >= 1

---------------------------------------------------------------------------
(* Claims about cleanup_virtual_devices *)

CleanupDone == call.op = "cleanup_virtual_devices"
ListingResult == call.cmds[1].result
UnloadsRun == SubSeq(call.cmds, 2, Len(call.cmds))

CarriesPrefix(line) ==
    \E i \in 1..(Len(line) - Len(beacn_link_) + 1) :
        SubSeq(line, i, i + Len(beacn_link_) - 1) = beacn_link_

\* The text before the line's first tab, the whole line when it has none.
FirstField(line) ==
    LET n == CHOOSE k \in 0..Len(line) :
                /\ \A i \in 1..k : line[i] # TAB
                /\ k = Len(line) \/ line[k + 1] = TAB
    IN  SubSeq(line, 1, n)

ListedLines == Lines(FromUtf8Lossy(ListingResult.stdout))

\* C3: the unload-module commands issued are, in listing order and once per
\* entry, those of the entries carrying "beacn_link_", each with the
\* entry's first tab-separated field as module id; no entry without the
\* prefix leads to an unload.
C3_UnloadsExactlyPrefixedEntries ==
    (CleanupDone /\ ~call.panicked) =>
        LET carrying == SelectSeq(ListedLines, CarriesPrefix)
        IN  /\ Len(UnloadsRun) = Len(carrying)
            /\ \A k \in 1..Len(carrying) :
                  UnloadsRun[k].argv = <<pactl, unload_module, FirstField(carrying[k])>>

C3_Witness ==
    /\ CleanupDone /\ ~call.panicked
    /\ Len(ListedLines) = 3
    /\ CarriesPrefix(ListedLines[1])
    /\ ~CarriesPrefix(ListedLines[2]) /\ ListedLines[2] # <<>>
    /\ CarriesPrefix(ListedLines[3])
    /\ Len(UnloadsRun) = 2
    /\ UnloadsRun[1].argv[3] # UnloadsRun[2].argv[3]
    /\ ~Begins(ListedLines[1], beacn_link_)

---------------------------------------------------------------------------
(* Claims about the virtual device manager *)

LinkOutputsDone == call.op = "create_link_outputs"

\* The command loads a null sink whose sink_name is the given name.
LoadsNullSinkNamed(cmd, name) ==
    /\ Len(cmd.argv) >= 4
    /\ cmd.argv[1] = pactl
    /\ cmd.argv[2] = load_module
    /\ cmd.argv[3] = module_null_sink
    /\ cmd.argv[4] = sink_name_eq \o name

SucceededCmds(cmds) == {k \in 1..Len(cmds) : Succeeded(cmds[k].result)}

\* What a create_link_outputs step must look like.  The names attempted
\* (call.args) are the fixed names in order up to the first failure; each
\* command run is the load of the null sink of the name at its position;
\* the result is true iff all four were created; on a failure everything
\* before the last attempt succeeded, the last attempt did not, nothing is
\* unloaded, and the modules created stay in the server's table.
LinkOutputsStep(before, after, done) ==
    LET n == Len(done.args)
        made == Cardinality(SucceededCmds(done.cmds))
    IN  /\ n >= 1 /\ n <= Len(output_names)
        /\ done.args = SubSeq(output_names, 1, n)
        /\ Len(done.cmds) <= n
        /\ \A k \in 1..Len(done.cmds) : LoadsNullSinkNamed(done.cmds[k], output_names[k])
        /\ done.ret <=> made = Len(output_names)
        /\ ~done.ret => /\ made = n - 1
                        /\ SucceededCmds(done.cmds) = 1..(n - 1)
        /\ Len(after) = Len(before) + made
        /\ SubSeq(after, 1, Len(before)) = before
        /\ \A k \in 1..made :
              /\ after[Len(before) + k].name = module_null_sink
              /\ Begins(after[Len(before) + k].argument, sink_name_eq \o output_names[k] \o <<" ">>)

\* C4: create_link_outputs attempts the four fixed names in order, returns
\* true iff all four creations succeed, and at the first failure returns
\* false, attempts no later name and unloads nothing it created.
C4_FailFastNoRollback ==
    [][LinkOutputsDone' => LinkOutputsStep(modules, modules', call')]_vars

C4_Witness ==
    /\ LinkOutputsDone
    /\ ~call.ret
    /\ Len(call.args) = 3
    /\ SucceededCmds(call.cmds) = {1, 2}
    /\ Len(modules) >= 2
    /\ Begins(modules[Len(modules)].argument, sink_name_eq \o output_names[2])
    /\ Begins(modules[Len(modules) - 1].argument, sink_name_eq \o output_names[1])

\* C6: create_virtual_output(name) returns true iff a load-module
\* module-null-sink command with the argument sink_name=<name> was run and
\* exited with status zero.
C6_TrueIffNullSinkLoaded ==
    call.op = "create_virtual_output" =>
        (call.ret <=>
            \E k \in 1..Len(call.cmds) :
                /\ LoadsNullSinkNamed(call.cmds[k], call.args[1])
                /\ call.cmds[k].result.kind = "ok"
                /\ call.cmds[k].result.status = 0)

C6_Witness ==
    /\ call.op = "create_virtual_output"
    /\ call.args = <<beacn_link_a>>
    /\ call.ret
    /\ Len(call.cmds) = 1
    /\ \E i \in 1..Len(modules) : modules[i].index # 0 /\ modules[i].name = module_null_sink

ManagerOps == {"create_virtual_output", "route_audio", "create_link_outputs"}

\* C10: the three manager calls run an external command iff some earlier
\* initialize returned true, and otherwise return false having run none; a
\* failing initialize leaves the handle as it was, so a handle once set
\* stays set.
C10_CommandsIffInitialized ==
    /\ (pulse_context = "Some") <=> ever_initialized
    /\ call.op \in ManagerOps =>
          /\ (call.cmds # <<>>) <=> ever_initialized
          /\ ~ever_initialized => ~call.ret
    /\ (call.op = "initialize" /\ call.ret) => ever_initialized

C10_Witness ==
    /\ call.op = "initialize"
    /\ ~call.ret
    /\ ever_initialized
    /\ pulse_context = "Some"
    /\ modules[Len(modules)].index # 0

\* C9: after create_link_outputs returned true, a cleanup whose listing and
\* unload commands all succeed leaves none of the modules it created loaded.
C9_CleanupRemovesLinkOutputs ==
    (/\ CleanupDone
     /\ ~call.panicked
     /\ \A k \in 1..Len(call.cmds) : Succeeded(call.cmds[k].result)
     /\ link_modules # {}) =>
        \A i \in 1..Len(modules) : modules[i].index \notin link_modules

---------------------------------------------------------------------------
(* Claims about concurrent callers *)

Running(t) == in_flight[t] # <<>>

\* C7 as stated: the mutex covers only the handle slot and not the external
\* command, so a caller's command runs with the mutex free for the others.
C7_MutexFreeWhileCommandRuns ==
    \A t \in Callers : Running(t) => mutex # t

\* C7 amended: the guard is held for the whole `if let`, the external
\* command included, so two callers' load-module commands are never in
\* flight together: the second caller waits at the lock.
C7_CommandsSerialized ==
    /\ \A t, u \in Callers : (Running(t) /\ Running(u)) => t = u
    /\ \A t \in Callers : Running(t) => mutex = t

C7_Witness ==
    \E t, u \in Callers :
        /\ t # u
        /\ Running(t)
        /\ pc[u].at = "lock"
        /\ mutex = t

====
